---- MODULE Spec2Model ----
(***************************************************************************)
(* The expression IR of the tensor-algebra compiler (src/expr/expr.cpp)    *)
(* and the lowering analyses over it (src/lower/expr_tools.cpp).           *)
(*                                                                         *)
(* An expression is a tree of records.  Every node carries `id`, the       *)
(* identity of the node object (its address in the C++ program); nodes     *)
(* built by a rewrite (`new T(...)`) carry the id NewNode.  The undefined  *)
(* expression IndexExpr() is the record Undef.                             *)
(***************************************************************************)
EXTENDS Integers, Sequences, FiniteSets, TLC

VARIABLES content, operatorSplits, last,
          eqA, eqB, eqC, eqRes,
          fnExpr, fnVars, fnRes

tensorVarsState == <<content, operatorSplits, last>>
equalsState     == <<eqA, eqB, eqC, eqRes>>
fnState         == <<fnExpr, fnVars, fnRes>>
vars            == <<content, operatorSplits, last, eqA, eqB, eqC, eqRes,
                     fnExpr, fnVars, fnRes>>

(***************************************************************************)
(* Bounds of the model.                                                    *)
(***************************************************************************)
\* total number of operator splits recorded on the nodes of the pool
MaxSplits == 2
\* number of nodes of the largest expression given to simplify,
\* getAvailableExpressions, getSubExpr and getSubExprOld
MaxNodes == 5

\* id of a node constructed during a rewrite (new T(a), new T(a, b))
NewNode == 0

(***************************************************************************)
(* Index variables and tensor variables: identity-compared handles.        *)
(***************************************************************************)
IndexVars == {"i", "j", "k"}

TensorVars == {"y", "a", "b", "c", "s"}

\* getType().getShape(): the dimension of each mode of a tensor variable
Shape(t) ==
  CASE t = "y" -> <<3>>
    [] t = "a" -> <<3>>
    [] t = "b" -> <<4>>
    [] t = "c" -> <<3, 4>>
    [] t = "s" -> <<>>

(***************************************************************************)
(* Expression nodes.                                                       *)
(***************************************************************************)
Undef == [kind |-> "Undef"]

UnaryKinds  == {"Neg", "Sqrt"}
BinaryKinds == {"Add", "Sub", "Mul", "Div"}
ImmKinds    == {"IntImm", "UIntImm", "FloatImm", "ComplexImm"}

defined(e) == e.kind # "Undef"

AccessNode(n, t, iv) ==
  [kind |-> "Access", id |-> n, tensorVar |-> t, indexVars |-> iv]

ImmNode(n, k, v) == [kind |-> k, id |-> n, val |-> v]

UnaryNode(n, k, x) == [kind |-> k, id |-> n, a |-> x]

BinaryNode(n, k, x, y) == [kind |-> k, id |-> n, a |-> x, b |-> y]

isAccess(e) == e.kind = "Access"
isUnary(e)  == e.kind \in UnaryKinds
isBinary(e) == e.kind \in BinaryKinds
isImm(e)    == e.kind \in ImmKinds

RECURSIVE Size(_)
\* number of nodes of an expression tree
Size(e) ==
  IF isUnary(e) THEN 1 + Size(e.a)
  ELSE IF isBinary(e) THEN 1 + Size(e.a) + Size(e.b)
  ELSE IF defined(e) THEN 1
  ELSE 0

RECURSIVE Label(_, _)
\* the tree e built from fresh node objects, numbered from n in pre-order
Label(e, n) ==
  IF isUnary(e) THEN UnaryNode(n, e.kind, Label(e.a, n + 1))
  ELSE IF isBinary(e)
    THEN BinaryNode(n, e.kind, Label(e.a, n + 1),
                    Label(e.b, n + 1 + Size(e.a)))
  ELSE IF defined(e) THEN [e EXCEPT !.id = n]
  ELSE e

RECURSIVE Nodes(_)
\* the set of node objects of a tree
Nodes(e) ==
  IF isUnary(e) THEN {e} \cup Nodes(e.a)
  ELSE IF isBinary(e) THEN {e} \cup Nodes(e.a) \cup Nodes(e.b)
  ELSE IF defined(e) THEN {e}
  ELSE {}

RECURSIVE Strip(_)
\* the shape of a tree: the tree with the node identities forgotten
Strip(e) ==
  IF isUnary(e) THEN UnaryNode(NewNode, e.kind, Strip(e.a))
  ELSE IF isBinary(e) THEN BinaryNode(NewNode, e.kind, Strip(e.a), Strip(e.b))
  ELSE IF defined(e) THEN [e EXCEPT !.id = NewNode]
  ELSE e

\* operator+, operator-, operator*, operator/ and the unary operator-
Add(x, y) == BinaryNode(NewNode, "Add", x, y)
Sub(x, y) == BinaryNode(NewNode, "Sub", x, y)
Mul(x, y) == BinaryNode(NewNode, "Mul", x, y)
Div(x, y) == BinaryNode(NewNode, "Div", x, y)
Neg(x)    == UnaryNode(NewNode, "Neg", x)

\* Access(tensor, indices): no check of the number of indices
Access(t, iv) == AccessNode(NewNode, t, iv)

(***************************************************************************)
(* Tensor variables: the shared content block and the binding operations.  *)
(***************************************************************************)
\* the tensor variables that the modelled program binds definitions to
ResultVars == {"y"}

a_i == Access("a", <<"i">>)
b_j == Access("b", <<"j">>)

\* the right-hand sides the modelled program binds, all of them defined
\* expressions; every one is built from node objects of its own
DefPool ==
  { Label(a_i, 10),
    Label(Add(a_i, Access("b", <<"i">>)), 20),
    Label(Add(Mul(a_i, a_i), a_i), 30),
    Label(Neg(Mul(a_i, b_j)), 40) }

\* the index tuples a tensor is applied to on a left-hand side:
\* TensorVar::operator() accepts exactly getOrder() index variables
LhsIndices(t) == [1..Len(Shape(t)) -> {"i", "j"}]

\* TensorVar::Content after `new Content`: no definition, no splits; the
\* accumulate flag is a bool without an initialiser
NewContent(acc) ==
  [freeVars |-> <<>>, indexExpr |-> Undef, accumulate |-> acc,
   schedule |-> <<>>]

RECURSIVE AccessesOf(_)
\* the Access nodes of an expression
AccessesOf(e) ==
  IF isAccess(e) THEN {e}
  ELSE IF isUnary(e) THEN AccessesOf(e.a)
  ELSE IF isBinary(e) THEN AccessesOf(e.a) \cup AccessesOf(e.b)
  ELSE {}

\* the (index variable, dimension) pairs a definition implies
DimBindings(freeVars, indexExpr, shape) ==
  {<<freeVars[m], shape[m]>> : m \in 1..Len(freeVars)}
    \cup UNION {{<<x.indexVars[m], Shape(x.tensorVar)[m]>> :
                   m \in 1..Len(x.indexVars)} : x \in AccessesOf(indexExpr)}

\* error::dimensionsTypecheck: every index variable ranges over one dimension
dimensionsTypecheck(freeVars, indexExpr, shape) ==
  \A p, q \in DimBindings(freeVars, indexExpr, shape) :
    p[1] = q[1] => p[2] = q[2]

\* setIndexExpression recording the three fields before it validates
setIndexExpression_record_first(c, t, freeVars, indexExpr, accumulate, tr, ds) ==
  LET bound == [c EXCEPT !.freeVars = freeVars, !.indexExpr = indexExpr,
                         !.accumulate = accumulate]
  IN IF ~dimensionsTypecheck(freeVars, indexExpr, Shape(t))
       THEN [content |-> bound, err |-> "dimension_mismatch"]
     ELSE IF tr THEN [content |-> bound, err |-> "transposition"]
     ELSE IF ds THEN [content |-> bound, err |-> "distribution"]
     ELSE [content |-> bound, err |-> "none"]

\* TensorVar::setIndexExpression on the content c of tensor t; tr and ds are
\* the answers of error::containsTranspose and error::containsDistribution
setIndexExpression(c, t, freeVars, indexExpr, accumulate, tr, ds) ==
  IF ~dimensionsTypecheck(freeVars, indexExpr, Shape(t))
    THEN [content |-> c, err |-> "dimension_mismatch"]
  ELSE IF tr THEN [content |-> c, err |-> "transposition"]
  ELSE IF ds THEN [content |-> c, err |-> "distribution"]
  ELSE [content |-> [c EXCEPT !.freeVars = freeVars,
                              !.indexExpr = indexExpr,
                              !.accumulate = accumulate],
        err |-> "none"]

\* the assignment operators without the "Cannot reassign" guard
assign_unguarded(c, t, freeVars, indexExpr, accumulate, tr, ds) ==
  setIndexExpression(c, t, freeVars, indexExpr, accumulate, tr, ds)

\* the body shared by Access::operator= and Access::operator+=: the
\* "Cannot reassign" guard, then setIndexExpression
assign(c, t, freeVars, indexExpr, accumulate, tr, ds) ==
  IF defined(c.indexExpr)
    THEN [content |-> c, err |-> "reassign"]
    ELSE setIndexExpression(c, t, freeVars, indexExpr, accumulate, tr, ds)

\* what `last` records of a binding operation on tensor t
Bound(op, t, iv, e, acc, tr, ds, r) ==
  [op |-> op, t |-> t, freeVars |-> iv, indexExpr |-> e, accumulate |-> acc,
   transpose |-> tr, distribution |-> ds, pre |-> content[t], err |-> r.err]

\* Access::operator=(const IndexExpr&): t(iv) = e
AccessAssign(t, iv, e, tr, ds) ==
  LET r == assign(content[t], t, iv, e, FALSE, tr, ds)
  IN /\ content' = [content EXCEPT ![t] = r.content]
     /\ last' = Bound("assign", t, iv, e, FALSE, tr, ds, r)
     /\ UNCHANGED <<operatorSplits, equalsState, fnState>>

\* Access::operator+=(const IndexExpr&): t(iv) += e
AccessAccumulate(t, iv, e, tr, ds) ==
  LET r == assign(content[t], t, iv, e, TRUE, tr, ds)
  IN /\ content' = [content EXCEPT ![t] = r.content]
     /\ last' = Bound("accumulate", t, iv, e, TRUE, tr, ds, r)
     /\ UNCHANGED <<operatorSplits, equalsState, fnState>>

\* a direct call t.setIndexExpression(iv, e, acc)
SetIndexExpression(t, iv, e, acc, tr, ds) ==
  LET r == setIndexExpression(content[t], t, iv, e, acc, tr, ds)
  IN /\ content' = [content EXCEPT ![t] = r.content]
     /\ last' = Bound("setIndexExpression", t, iv, e, acc, tr, ds, r)
     /\ UNCHANGED <<operatorSplits, equalsState, fnState>>

(***************************************************************************)
(* Operator splits and the schedule of a tensor variable.                  *)
(***************************************************************************)
\* the node objects of the bound expressions
PoolNodes == UNION {Nodes(e) : e \in DefPool}

PoolIds == {n.id : n \in PoolNodes}

\* the (old, left, right) index variables of the splits the program records
SplitVars == {<<"i", "i1", "i2">>}

\* OperatorSplit(expr, old, left, right)
OperatorSplit(n, sv) ==
  [expr |-> n, old |-> sv[1], left |-> sv[2], right |-> sv[3]]

RECURSIVE SumLen(_, _)
\* the number of splits recorded on the nodes ids
SumLen(splits, ids) ==
  IF ids = {} THEN 0
  ELSE LET n == CHOOSE x \in ids : TRUE
       IN Len(splits[n]) + SumLen(splits, ids \ {n})

\* what `last` records of an operation that binds nothing
Other(op, t) ==
  [op |-> op, t |-> t, freeVars |-> <<>>, indexExpr |-> Undef,
   accumulate |-> FALSE, transpose |-> FALSE, distribution |-> FALSE,
   pre |-> content[t], err |-> "none"]

\* ExprNode::splitOperator(old, left, right) on the node object n
SplitOperator(n, sv) ==
  /\ SumLen(operatorSplits, PoolIds) < MaxSplits
  /\ operatorSplits' =
       [operatorSplits EXCEPT ![n] = Append(@, OperatorSplit(n, sv))]
  /\ last' = Other("splitOperator", "y")
  /\ UNCHANGED <<content, equalsState, fnState>>

\* Schedule::addOperatorSplit for each split of one node, in order
addOperatorSplits(schedule, splits) == schedule \o splits

RECURSIVE GetScheduleVisit(_, _, _)
\* the traversal of the local visitor GetSchedule: its visit(BinaryExprNode)
\* adds the splits of the node and visits no operand; a unary node is left to
\* the base visitor, which visits the operand; the leaves do nothing
GetScheduleVisit(e, schedule, splits) ==
  IF isBinary(e) THEN addOperatorSplits(schedule, splits[e.id])
  ELSE IF isUnary(e) THEN GetScheduleVisit(e.a, schedule, splits)
  ELSE schedule

\* TensorVar::getSchedule: clear the stored schedule, collect into the
\* visitor's handle of it, return the stored schedule
getSchedule(c, splits) ==
  [c EXCEPT !.schedule = GetScheduleVisit(c.indexExpr, <<>>, splits)]

\* a call t.getSchedule() on a tensor with a definition
GetSchedule(t) ==
  /\ defined(content[t].indexExpr)
  /\ content' = [content EXCEPT ![t] = getSchedule(content[t], operatorSplits)]
  /\ last' = Other("getSchedule", t)
  /\ UNCHANGED <<operatorSplits, equalsState, fnState>>

(***************************************************************************)
(* The tensor-variable program: bindings, splits, schedule recovery.       *)
(***************************************************************************)
Idle == [op |-> "none"]

EqualsIdle == eqA = Undef /\ eqB = Undef /\ eqC = Undef /\ eqRes = Idle

FnIdle == fnExpr = Undef /\ fnVars = {} /\ fnRes = Idle

Init ==
  /\ content \in [ResultVars -> {NewContent(acc) : acc \in BOOLEAN}]
  /\ operatorSplits = [n \in PoolIds |-> <<>>]
  /\ last = Idle
  /\ EqualsIdle
  /\ FnIdle

Next ==
  \/ \E t \in ResultVars : \E iv \in LhsIndices(t), e \in DefPool, tr, ds \in BOOLEAN :
       AccessAssign(t, iv, e, tr, ds)
  \/ \E t \in ResultVars : \E iv \in LhsIndices(t), e \in DefPool, tr, ds \in BOOLEAN :
       AccessAccumulate(t, iv, e, tr, ds)
  \/ \E t \in ResultVars : \E iv \in LhsIndices(t), e \in DefPool, acc, tr, ds \in BOOLEAN :
       SetIndexExpression(t, iv, e, acc, tr, ds)

Spec == Init /\ [][Next]_vars

(***************************************************************************)
(* Schedule recovery on a tensor variable that has a definition: the       *)
(* program has bound y(i) = e for a right-hand side e that passes          *)
(* setIndexExpression, and goes on to split operators and read schedules.  *)
(***************************************************************************)
BoundContents ==
  {setIndexExpression(NewContent(FALSE), "y", <<"i">>, e, FALSE, FALSE, FALSE).content :
     e \in DefPool}

InitSchedule ==
  /\ content \in [ResultVars -> {c \in BoundContents : defined(c.indexExpr)}]
  /\ operatorSplits = [n \in PoolIds |-> <<>>]
  /\ last = Idle
  /\ EqualsIdle
  /\ FnIdle

NextSchedule ==
  \/ \E n \in PoolIds, sv \in SplitVars : SplitOperator(n, sv)
  \/ \E t \in ResultVars : GetSchedule(t)

SpecSchedule == InitSchedule /\ [][NextSchedule]_vars

(***************************************************************************)
(* Properties of the binding operations and of schedule recovery.          *)
(***************************************************************************)
BindingOps == {"assign", "accumulate", "setIndexExpression"}

\* the definition of a tensor content: free variables, expression, flag
Definition(c) == <<c.freeVars, c.indexExpr, c.accumulate>>

\* C1: once a tensor's defining expression is defined, no binding operation
\* (plain assignment, accumulating assignment, direct setIndexExpression)
\* changes its free-variable list, defining expression or accumulate flag.
C1_DefinitionNeverChanges ==
  (last.op \in BindingOps /\ defined(last.pre.indexExpr))
    => Definition(content[last.t]) = Definition(last.pre)

\* C2: plain and accumulating assignment on an Access whose tensor has a
\* definition fail with the redefinition error and leave the definition
\* intact; on a tensor without a definition the redefinition error is not
\* raised, and a binding that goes through records the assigned free
\* variables and expression with accumulate = FALSE for plain assignment and
\* accumulate = TRUE for accumulating assignment.
C2_AssignmentGuardsRedefinition ==
  last.op \in {"assign", "accumulate"} =>
    /\ defined(last.pre.indexExpr) =>
         /\ last.err = "reassign"
         /\ Definition(content[last.t]) = Definition(last.pre)
    /\ ~defined(last.pre.indexExpr) =>
         /\ last.err # "reassign"
         /\ last.err = "none" =>
              Definition(content[last.t]) =
                <<last.freeVars, last.indexExpr, last.op = "accumulate">>

\* C2 witness: a tensor defined by an accumulating assignment rejects a plain
\* assignment of another expression and keeps its accumulate flag.
C2_Witness ==
  /\ last.op = "assign"
  /\ last.err = "reassign"
  /\ last.pre.accumulate
  /\ defined(last.indexExpr)
  /\ last.indexExpr # last.pre.indexExpr
  /\ content[last.t].accumulate

\* setIndexExpression ran in the last step: called directly, or from an
\* assignment that passed the redefinition guard
RanSetIndexExpression ==
  /\ last.op \in BindingOps
  /\ last.op \in {"assign", "accumulate"} => ~defined(last.pre.indexExpr)

\* C3: setIndexExpression checks dimensions, then transposition, then
\* distribution, raises the error of the first check that fails and then
\* leaves the whole content of the tensor as it was; only when all three
\* pass are the free variables, expression and accumulate flag recorded.
C3_FailedValidationDoesNotMutate ==
  RanSetIndexExpression =>
    LET dimOk == dimensionsTypecheck(last.freeVars, last.indexExpr,
                                     Shape(last.t))
    IN /\ last.err = (IF ~dimOk THEN "dimension_mismatch"
                      ELSE IF last.transpose THEN "transposition"
                      ELSE IF last.distribution THEN "distribution"
                      ELSE "none")
       /\ last.err # "none" => content[last.t] = last.pre
       /\ last.err = "none" =>
            /\ Definition(content[last.t]) =
                 <<last.freeVars, last.indexExpr, last.accumulate>>
            /\ content[last.t].schedule = last.pre.schedule

\* C3 witness: all three validations fail on a tensor without a definition;
\* the dimension error is raised and the tensor still has no definition.
C3_Witness ==
  /\ RanSetIndexExpression
  /\ last.err = "dimension_mismatch"
  /\ last.transpose /\ last.distribution
  /\ defined(last.indexExpr)
  /\ ~defined(last.pre.indexExpr)
  /\ ~defined(content[last.t].indexExpr)
  /\ content[last.t].freeVars = <<>>

\* the number of times split x occurs in a schedule
Occurrences(schedule, x) ==
  Cardinality({m \in 1..Len(schedule) : schedule[m] = x})

\* C10: getSchedule returns a schedule that holds every operator split
\* recorded on every binary node of the defining expression, at any depth,
\* each exactly as often as it was recorded.
C10_ScheduleHoldsEverySplit ==
  last.op = "getSchedule" =>
    LET c == content[last.t]
    IN \A n \in Nodes(c.indexExpr) :
         isBinary(n) =>
           \A k \in 1..Len(operatorSplits[n.id]) :
             Occurrences(c.schedule, operatorSplits[n.id][k]) =
               Occurrences(operatorSplits[n.id], operatorSplits[n.id][k])

(***************************************************************************)
(* Structural equality: equals and the visitor Equals.                     *)
(*                                                                         *)
(* A call returns one truth value; equalsOutcomes is the set of values a   *)
(* call can return.  It has two members only where the call reads          *)
(* bnode->indexVars[i] past the end of the vector: the value read there is *)
(* not determined by the program.                                          *)
(***************************************************************************)
\* the test `anode->indexVars.size() != anode->indexVars.size()`
sizesDiffer(anode, bnode) == Len(anode.indexVars) # Len(anode.indexVars)

\* Equals::visit(const AccessNode*): the values of eq after the visit
accessEquals(anode, b) ==
  IF ~isAccess(b) THEN {FALSE}
  ELSE IF anode.tensorVar # b.tensorVar THEN {FALSE}
  ELSE IF sizesDiffer(anode, b) THEN {FALSE}
  ELSE LET n == Len(anode.indexVars)
           m == Len(b.indexVars)
           inside == {i \in 1..n : i <= m}
       IN IF \E i \in inside : anode.indexVars[i] # b.indexVars[i]
            THEN {FALSE}
          ELSE IF n <= m THEN {TRUE}
          ELSE BOOLEAN

\* Equals::immediateEquals
immediateEquals(anode, b) ==
  IF b.kind # anode.kind THEN {FALSE}
  ELSE IF anode.val # b.val THEN {FALSE}
  ELSE {TRUE}

RECURSIVE equalsOutcomes(_, _)
\* equals(a, b), with Equals::check, unaryEquals and binaryEquals
equalsOutcomes(a, b) ==
  IF ~defined(a) /\ ~defined(b) THEN {TRUE}
  ELSE IF ~defined(a) \/ ~defined(b) THEN {FALSE}
  ELSE IF isAccess(a) THEN accessEquals(a, b)
  ELSE IF isUnary(a)
    THEN IF b.kind # a.kind THEN {FALSE} ELSE equalsOutcomes(a.a, b.a)
  ELSE IF isBinary(a)
    THEN IF b.kind # a.kind THEN {FALSE}
         ELSE {x /\ y : x \in equalsOutcomes(a.a, b.a),
                        y \in equalsOutcomes(a.b, b.b)}
  ELSE immediateEquals(a, b)

\* the operands of the compared expressions: accesses of one tensor with
\* zero, one and two index variables (Access(tensor, indices) checks no
\* arity), accesses that differ in a variable or in the tensor, immediates
EqLeaves ==
  { Access("c", <<>>), Access("c", <<"i">>), Access("c", <<"i", "j">>),
    Access("c", <<"i", "k">>), Access("c", <<"j">>), Access("a", <<"i">>),
    ImmNode(NewNode, "IntImm", 1), ImmNode(NewNode, "IntImm", 2),
    ImmNode(NewNode, "FloatImm", 1) }

\* the compared expressions, each built from node objects of its own; one
\* shape is built twice
EqShapes ==
  EqLeaves
    \cup {UnaryNode(NewNode, k, x) :
            k \in UnaryKinds, x \in {Access("c", <<"i">>), Access("c", <<"i", "j">>)}}
    \cup {BinaryNode(NewNode, k, x, Access("c", <<"i">>)) :
            k \in {"Add", "Mul"},
            x \in {Access("c", <<"i">>), Access("c", <<"i", "j">>), Access("a", <<"i">>)}}

EqPool ==
  {Label(e, 100) : e \in EqShapes}
    \cup {Label(Access("c", <<"i">>), 200), Undef}

InitEquals ==
  /\ eqA \in EqPool
  /\ eqB \in EqPool
  /\ eqC \in EqPool
  /\ eqRes = Idle
  /\ content = [t \in ResultVars |-> NewContent(FALSE)]
  /\ operatorSplits = [n \in PoolIds |-> <<>>]
  /\ last = Idle
  /\ FnIdle

\* the program evaluates equals on the pairs of a, b and c
CallEquals ==
  /\ eqRes = Idle
  /\ \E aa \in equalsOutcomes(eqA, eqA), ab \in equalsOutcomes(eqA, eqB),
        ba \in equalsOutcomes(eqB, eqA), bc \in equalsOutcomes(eqB, eqC),
        ac \in equalsOutcomes(eqA, eqC) :
       eqRes' = [op |-> "equals", aa |-> aa, ab |-> ab, ba |-> ba,
                 bc |-> bc, ac |-> ac]
  /\ UNCHANGED <<eqA, eqB, eqC, tensorVarsState, fnState>>

NextEquals == CallEquals

SpecEquals == InitEquals /\ [][NextEquals]_vars

\* C4: equals is an equivalence relation on the expressions, the undefined
\* one included: reflexive, symmetric, transitive; two undefined
\* expressions are equal, a defined and an undefined one are not.
C4_EqualsIsEquivalence ==
  eqRes.op = "equals" =>
    /\ eqRes.aa
    /\ eqRes.ab => eqRes.ba
    /\ (eqRes.ab /\ eqRes.bc) => eqRes.ac
    /\ (~defined(eqA) /\ ~defined(eqB)) => eqRes.ab
    /\ (defined(eqA) # defined(eqB)) => ~eqRes.ab

\* C5: equals on two Access nodes is true exactly when they have the same
\* tensor variable and the same index variables: equally many, and the same
\* one at every position.
C5_AccessEquality ==
  (eqRes.op = "equals" /\ isAccess(eqA) /\ isAccess(eqB)) =>
    (eqRes.ab <=> (eqA.tensorVar = eqB.tensorVar
                     /\ eqA.indexVars = eqB.indexVars))

(***************************************************************************)
(* The expressions given to the rewriters and analyses: every tree of at   *)
(* most MaxNodes nodes over the leaves a(i), c(i,j) and the immediate 1,   *)
(* built from node objects numbered from 1 in pre-order.                   *)
(***************************************************************************)
FnLeaves ==
  {Access("a", <<"i">>), Access("c", <<"i", "j">>), ImmNode(NewNode, "IntImm", 1)}

RECURSIVE TreesOfSize(_)
TreesOfSize(n) ==
  IF n = 1 THEN FnLeaves
  ELSE {UnaryNode(NewNode, k, x) : k \in UnaryKinds, x \in TreesOfSize(n - 1)}
         \cup UNION {{BinaryNode(NewNode, k, x, y) :
                        k \in BinaryKinds, x \in TreesOfSize(m),
                        y \in TreesOfSize(n - 1 - m)} : m \in 1..(n - 2)}

FnPool == {Label(e, 1) : e \in UNION {TreesOfSize(n) : n \in 1..MaxNodes}}

FnIndexVars == {"i", "j"}

(***************************************************************************)
(* simplify and the rewriter Simplify.                                     *)
(***************************************************************************)
\* util::contains(exhausted, op) on the set<Access>: membership of the
\* access, whichever node object carries it
contains(exhausted, op) ==
  \E x \in exhausted :
    x.tensorVar = op.tensorVar /\ x.indexVars = op.indexVars

\* Simplify::visit(const AccessNode*)
simplifyAccess(op, exhausted) ==
  IF contains(exhausted, op) THEN Undef ELSE op

\* a unary rewrite that builds a new node whenever the operand is defined
visitUnaryOp_rebuild(op, a) ==
  IF ~defined(a) THEN Undef
  ELSE UnaryNode(NewNode, op.kind, a)

\* Simplify::visitUnaryOp, a being rewrite(op->a)
visitUnaryOp(op, a) ==
  IF ~defined(a) THEN Undef
  ELSE IF a.id = op.a.id THEN op
  ELSE UnaryNode(NewNode, op.kind, a)

\* Simplify::visitConjunctionOp, a and b being rewrite(op->a), rewrite(op->b)
visitConjunctionOp(op, a, b) ==
  IF ~defined(a) \/ ~defined(b) THEN Undef
  ELSE IF a.id = op.a.id /\ b.id = op.b.id THEN op
  ELSE BinaryNode(NewNode, op.kind, a, b)

\* a sum or difference treated as a product or quotient
visitDisjunctionOp_as_conjunction(op, a, b) == visitConjunctionOp(op, a, b)

\* Simplify::visitDisjunctionOp, a and b being rewrite(op->a), rewrite(op->b)
visitDisjunctionOp(op, a, b) ==
  IF ~defined(a) /\ ~defined(b) THEN Undef
  ELSE IF ~defined(a) THEN b
  ELSE IF ~defined(b) THEN a
  ELSE IF a.id = op.a.id /\ b.id = op.b.id THEN op
  ELSE BinaryNode(NewNode, op.kind, a, b)

RECURSIVE simplify(_, _)
\* simplify(expr, exhausted) = Simplify(exhausted).rewrite(expr)
simplify(e, exhausted) ==
  IF ~defined(e) THEN Undef
  ELSE IF isAccess(e) THEN simplifyAccess(e, exhausted)
  ELSE IF isUnary(e) THEN visitUnaryOp(e, simplify(e.a, exhausted))
  ELSE IF e.kind \in {"Add", "Sub"}
    THEN visitDisjunctionOp(e, simplify(e.a, exhausted), simplify(e.b, exhausted))
  ELSE IF e.kind \in {"Mul", "Div"}
    THEN visitConjunctionOp(e, simplify(e.a, exhausted), simplify(e.b, exhausted))
  ELSE e

\* the accesses a caller may have exhausted, held by node objects of the
\* caller's own
ExhaustedPool ==
  SUBSET {AccessNode(900, "a", <<"i">>), AccessNode(901, "c", <<"i", "j">>)}

FnInit(inputs) ==
  /\ fnExpr \in FnPool
  /\ fnVars \in inputs
  /\ fnRes = Idle
  /\ content = [t \in ResultVars |-> NewContent(FALSE)]
  /\ operatorSplits = [n \in PoolIds |-> <<>>]
  /\ last = Idle
  /\ EqualsIdle

InitSimplify == FnInit(ExhaustedPool)

\* the program calls simplify(fnExpr, fnVars)
CallSimplify ==
  /\ fnRes = Idle
  /\ fnRes' = [op |-> "simplify", out |-> simplify(fnExpr, fnVars)]
  /\ UNCHANGED <<fnExpr, fnVars, tensorVarsState, equalsState>>

NextSimplify == CallSimplify

SpecSimplify == InitSimplify /\ [][NextSimplify]_vars

RECURSIVE Empty(_, _)
\* the emptiness rule: an access is empty iff exhausted, a unary node iff its
\* operand is, a sum or difference iff both operands are, a product or
\* quotient iff either operand is, an immediate never
Empty(e, exhausted) ==
  IF isAccess(e)
    THEN \E x \in exhausted : Strip(x) = Strip(e)
  ELSE IF isUnary(e) THEN Empty(e.a, exhausted)
  ELSE IF e.kind \in {"Add", "Sub"}
    THEN Empty(e.a, exhausted) /\ Empty(e.b, exhausted)
  ELSE IF e.kind \in {"Mul", "Div"}
    THEN Empty(e.a, exhausted) \/ Empty(e.b, exhausted)
  ELSE FALSE

\* C6: simplify(e, X) is undefined exactly when e is empty under the
\* emptiness rule, for e and for every subtree of e; a sum or difference
\* with exactly one empty operand simplifies to the simplification of the
\* other operand alone; an immediate is returned unchanged.
C6_SimplifyUndefinedIffEmpty ==
  fnRes.op = "simplify" =>
    /\ defined(fnRes.out) <=> ~Empty(fnExpr, fnVars)
    /\ \A n \in Nodes(fnExpr) :
         /\ defined(simplify(n, fnVars)) <=> ~Empty(n, fnVars)
         /\ isImm(n) => simplify(n, fnVars) = n
         /\ (n.kind \in {"Add", "Sub"}
               /\ Empty(n.a, fnVars) /\ ~Empty(n.b, fnVars))
              => simplify(n, fnVars) = simplify(n.b, fnVars)
         /\ (n.kind \in {"Add", "Sub"}
               /\ ~Empty(n.a, fnVars) /\ Empty(n.b, fnVars))
              => simplify(n, fnVars) = simplify(n.a, fnVars)

\* C6 witness: a sum whose left operand is exhausted and whose right operand
\* is a product that is not: the result is the product.
C6_Witness ==
  /\ fnRes.op = "simplify"
  /\ fnExpr.kind = "Add"
  /\ Empty(fnExpr.a, fnVars)
  /\ fnExpr.b.kind = "Mul"
  /\ ~Empty(fnExpr.b, fnVars)
  /\ fnRes.out = fnExpr.b

(***************************************************************************)
(* getAvailableExpressions and its visitor ExtractAvailableExpressions.    *)
(* The visitor's state is the record st: availableExpressions, a sequence, *)
(* and activeExpressions, the stack of (expression, available) pairs, its  *)
(* top being the last element.                                             *)
(***************************************************************************)
Range(q) == {q[m] : m \in 1..Len(q)}

push(st, e, available) ==
  [st EXCEPT !.activeExpressions = Append(@, [first |-> e, second |-> available])]

top(st) == st.activeExpressions[Len(st.activeExpressions)]

pop(st) ==
  [st EXCEPT !.activeExpressions = SubSeq(@, 1, Len(@) - 1)]

emit(st, e) ==
  [st EXCEPT !.availableExpressions = Append(@, e)]

\* an access taken as available when any one index variable is visited
accessAvailable_any(op, visitedVars) ==
  \E m \in 1..Len(op.indexVars) : op.indexVars[m] \in visitedVars

\* the loop of visit(const AccessNode*): available unless some index
\* variable is not among the visited ones
accessAvailable(op, visitedVars) ==
  \A m \in 1..Len(op.indexVars) : op.indexVars[m] \in visitedVars

\* a visit of a unary node that leaves the operand's entry on the stack
visitUnaryExprNode_no_pop(op, st) ==
  LET a == top(st)
  IN push(st, op, a.second)

\* visit(const UnaryExprNode*) after the operand has been visited
visitUnaryExprNode(op, st) ==
  LET a == top(st)
  IN push(pop(st), op, a.second)

\* visit(const BinaryExprNode*) after both operands have been visited
visitBinaryExprNode(op, st) ==
  LET a   == top(st)
      st1 == pop(st)
      b   == top(st1)
      st2 == pop(st1)
  IN IF a.second /\ b.second THEN push(st2, op, TRUE)
     ELSE LET st3 == IF a.second THEN emit(st2, a.first) ELSE st2
              st4 == IF b.second THEN emit(st3, b.first) ELSE st3
          IN push(st4, op, FALSE)

RECURSIVE extractVisit(_, _, _)
\* expr.accept(this) of ExtractAvailableExpressions
extractVisit(e, visitedVars, st) ==
  IF isAccess(e) THEN push(st, e, accessAvailable(e, visitedVars))
  ELSE IF isUnary(e)
    THEN visitUnaryExprNode(e, extractVisit(e.a, visitedVars, st))
  ELSE IF isBinary(e)
    THEN visitBinaryExprNode(e,
           extractVisit(e.b, visitedVars, extractVisit(e.a, visitedVars, st)))
  ELSE push(st, e, TRUE)

RECURSIVE visitAsserts(_, _, _)
\* whether every taco_iassert met while e is visited from the state st holds:
\* size() >= 1 after the operand of a unary node, size() >= 2 after the two
\* operands of a binary node
visitAsserts(e, visitedVars, st) ==
  IF isUnary(e)
    THEN /\ visitAsserts(e.a, visitedVars, st)
         /\ Len(extractVisit(e.a, visitedVars, st).activeExpressions) >= 1
  ELSE IF isBinary(e)
    THEN LET sa == extractVisit(e.a, visitedVars, st)
             sb == extractVisit(e.b, visitedVars, sa)
         IN /\ visitAsserts(e.a, visitedVars, st)
            /\ visitAsserts(e.b, visitedVars, sa)
            /\ Len(sb.activeExpressions) >= 2
  ELSE TRUE

\* the start of get: nothing available, nothing active
NewExtract == [availableExpressions |-> <<>>, activeExpressions |-> <<>>]

\* whether every taco_iassert of a call of get holds: the ones of the visits
\* and size() == 1 when the traversal has finished
getAsserts(e, visitedVars) ==
  /\ visitAsserts(e, visitedVars, NewExtract)
  /\ Len(extractVisit(e, visitedVars, NewExtract).activeExpressions) = 1

\* ExtractAvailableExpressions::get
getAvailableExpressions(e, visitedVars) ==
  LET st == extractVisit(e, visitedVars,
              [availableExpressions |-> <<>>, activeExpressions |-> <<>>])
  IN IF top(st).second
       THEN emit(st, top(st).first).availableExpressions
       ELSE st.availableExpressions

InitAvailable == FnInit(SUBSET FnIndexVars)

\* the program calls getAvailableExpressions(fnExpr, fnVars)
CallGetAvailableExpressions ==
  /\ fnRes = Idle
  /\ fnRes' = [op  |-> "getAvailableExpressions",
               out |-> getAvailableExpressions(fnExpr, fnVars),
               iasserts |-> getAsserts(fnExpr, fnVars)]
  /\ UNCHANGED <<fnExpr, fnVars, tensorVarsState, equalsState>>

NextAvailable == CallGetAvailableExpressions

SpecAvailable == InitAvailable /\ [][NextAvailable]_vars

\* a subtree is available iff every index variable of every access in it is
\* visited
Available(e, visited) ==
  \A x \in AccessesOf(e) : Range(x.indexVars) \subseteq visited

\* the node of which n is an operand, in the tree e; e itself for the root
Parent(e, n) ==
  IF n = e THEN e
  ELSE CHOOSE p \in Nodes(e) :
         \/ isUnary(p) /\ p.a = n
         \/ isBinary(p) /\ (p.a = n \/ p.b = n)

\* the maximal available subtrees of e: available, and the root or an
\* operand of a node that is not available
MaximalAvailable(e, visited) ==
  {n \in Nodes(e) :
     Available(n, visited) /\ (n = e \/ ~Available(Parent(e, n), visited))}

RECURSIVE PostOrder(_)
\* the nodes of e in post-order, operands left to right
PostOrder(e) ==
  IF isUnary(e) THEN Append(PostOrder(e.a), e)
  ELSE IF isBinary(e) THEN Append(PostOrder(e.a) \o PostOrder(e.b), e)
  ELSE <<e>>

\* the place of node n in the post-order of e
PostRank(e, n) == CHOOSE m \in 1..Size(e) : PostOrder(e)[m] = n

\* when the traversal of e discovers the maximal subtree n: at the visit of
\* its parent, and after the whole traversal for the root
Discovery(e, n) ==
  IF n = e THEN Size(e) + 1 ELSE PostRank(e, Parent(e, n))

isLeaf(e) == isAccess(e) \/ isImm(e)

\* C7: getAvailableExpressions(e, visited) returns exactly the maximal
\* available subtrees of e, one entry per occurrence, in the order in which
\* the post-order traversal (operands left to right) discovers them; every
\* available leaf of e lies inside exactly one entry; if e itself is
\* available the result is the single entry e.
C7_MaximalAvailableSubtrees ==
  fnRes.op = "getAvailableExpressions" =>
    LET out == fnRes.out
    IN /\ Range(out) = MaximalAvailable(fnExpr, fnVars)
       /\ Len(out) = Cardinality(MaximalAvailable(fnExpr, fnVars))
       /\ \A k, l \in 1..Len(out) :
            k < l => Discovery(fnExpr, out[k]) < Discovery(fnExpr, out[l])
       /\ \A n \in Nodes(fnExpr) :
            (isLeaf(n) /\ Available(n, fnVars)) =>
              Cardinality({k \in 1..Len(out) : n \in Nodes(out[k])}) = 1
       /\ Available(fnExpr, fnVars) => out = <<fnExpr>>

\* C7 witness: a binary node whose left operand a(i) is available and whose
\* right operand is an unavailable binary node with an available operand:
\* two entries, the one found inside the right operand first.
C7_Witness ==
  /\ fnRes.op = "getAvailableExpressions"
  /\ isBinary(fnExpr)
  /\ isAccess(fnExpr.a)
  /\ isBinary(fnExpr.b)
  /\ Len(fnRes.out) = 2
  /\ fnRes.out[1] \in {fnExpr.b.a, fnExpr.b.b}
  /\ fnRes.out[2] = fnExpr.a

(***************************************************************************)
(* getSubExpr (the visitor SubExprVisitor) and getSubExprOld.              *)
(***************************************************************************)
\* visit(const AccessNode*), the same in both visitors: the access is kept
\* if any of its index variables is among vars
subExprAccess(op, varSet) ==
  IF \E m \in 1..Len(op.indexVars) : op.indexVars[m] \in varSet
    THEN op
    ELSE Undef

\* SubExprVisitor::unarySubExpr, a being getSubExpression(op->a)
unarySubExpr(op, a) == IF defined(a) THEN op ELSE Undef

\* SubExprVisitor::binarySubExpr, a and b being getSubExpression of the
\* operands
binarySubExpr(op, a, b) ==
  IF defined(a) /\ defined(b) THEN BinaryNode(NewNode, op.kind, a, b)
  ELSE IF defined(a) THEN a
  ELSE IF defined(b) THEN b
  ELSE Undef

RECURSIVE getSubExpr(_, _)
\* getSubExpr(expr, vars) = SubExprVisitor(vars).getSubExpression(expr)
getSubExpr(e, varSet) ==
  IF isAccess(e) THEN subExprAccess(e, varSet)
  ELSE IF isUnary(e) THEN unarySubExpr(e, getSubExpr(e.a, varSet))
  ELSE IF isBinary(e)
    THEN binarySubExpr(e, getSubExpr(e.a, varSet), getSubExpr(e.b, varSet))
  ELSE Undef

\* getSubExprOld: visit(const UnaryExprNode*)
oldUnarySubExpr(op, a) == IF defined(a) THEN op ELSE Undef

\* getSubExprOld: visit(const BinaryExprNode*)
oldBinarySubExpr(op, a, b) ==
  IF defined(a) /\ defined(b) THEN op
  ELSE IF defined(a) THEN a
  ELSE IF defined(b) THEN b
  ELSE Undef

RECURSIVE getSubExprOld(_, _)
\* getSubExprOld(expr, vars)
getSubExprOld(e, varSet) ==
  IF isAccess(e) THEN subExprAccess(e, varSet)
  ELSE IF isUnary(e) THEN oldUnarySubExpr(e, getSubExprOld(e.a, varSet))
  ELSE IF isBinary(e)
    THEN oldBinarySubExpr(e, getSubExprOld(e.a, varSet),
                          getSubExprOld(e.b, varSet))
  ELSE Undef

InitSubExpr == FnInit(SUBSET FnIndexVars)

\* the program calls getSubExpr(fnExpr, fnVars)
CallGetSubExpr ==
  /\ fnRes = Idle
  /\ fnRes' = [op |-> "getSubExpr", out |-> getSubExpr(fnExpr, fnVars)]
  /\ UNCHANGED <<fnExpr, fnVars, tensorVarsState, equalsState>>

\* and then getSubExprOld(fnExpr, fnVars) on the same arguments
CallGetSubExprOld ==
  /\ fnRes.op = "getSubExpr"
  /\ fnRes' = [op |-> "getSubExprOld", out |-> fnRes.out,
               old |-> getSubExprOld(fnExpr, fnVars)]
  /\ UNCHANGED <<fnExpr, fnVars, tensorVarsState, equalsState>>

NextSubExpr == CallGetSubExpr \/ CallGetSubExprOld

SpecSubExpr == InitSubExpr /\ [][NextSubExpr]_vars

\* C8: the result of getSubExpr(e, vars) holds only parts that reference a
\* target variable: every access in it has an index variable in vars; and
\* for a unary e whose operand extraction is defined, the result is a unary
\* node of the same kind around the extracted operand.
C8_SubExprReferencesTargets ==
  fnRes.op = "getSubExpr" =>
    /\ \A x \in AccessesOf(fnRes.out) : Range(x.indexVars) \cap fnVars # {}
    /\ (isUnary(fnExpr) /\ defined(getSubExpr(fnExpr.a, fnVars))) =>
         Strip(fnRes.out) =
           UnaryNode(NewNode, fnExpr.kind, Strip(getSubExpr(fnExpr.a, fnVars)))

\* C9: getSubExprOld(e, vars) and getSubExpr(e, vars) are both undefined or
\* are structurally equal.
C9_OldAndNewAgree ==
  fnRes.op = "getSubExprOld" => Strip(fnRes.old) = Strip(fnRes.out)

(***************************************************************************)
(* lowerToScalarExpression and its visitor ScalarCode.  The result of a    *)
(* lowering is the record [expr, paths, iters]: the low-level expression,  *)
(* the accesses whose tensor path was asked of the iteration graph, and    *)
(* the iterators taken from the iterator table.                            *)
(***************************************************************************)
\* IterationGraph::getTensorPath(op): the path of the accessed tensor, one
\* step per index variable
getTensorPath(op) == [tensor |-> op.tensorVar, vars |-> op.indexVars]

\* TensorPath::getLastStep
getLastStep(path) == [path |-> path, step |-> Len(path.vars)]

\* Iterators::getRoot(path): the root iterator of the path's tensor
getRoot(path) == [tensor |-> path.tensor, level |-> 0]

\* Iterators::operator[](step): the iterator of one step of a path
iteratorAt(step) == [tensor |-> step.path.tensor, level |-> step.step]

\* storage::Iterator::getPtrVar
getPtrVar(iterator) == [ir |-> "Var", name |-> "ptr", of |-> iterator]

\* Load::make(GetProperty::make(iterator.getTensor(), Values), ptr)
loadValue(iterator) ==
  [ir |-> "Load",
   values |-> [ir |-> "GetProperty", tensor |-> iterator.tensor,
               property |-> "Values"],
   ptr |-> getPtrVar(iterator)]

\* the iterator an access that is no temporary reads through
accessIterator(op) ==
  IF Len(Shape(op.tensorVar)) = 0
    THEN getRoot(getTensorPath(op))
    ELSE iteratorAt(getLastStep(getTensorPath(op)))

\* the visit of an access that looks no temporary up
scalarAccess_no_temporaries(op, temporaries) ==
  [expr |-> loadValue(accessIterator(op)), paths |-> {op},
   iters |-> {accessIterator(op)}]

\* ScalarCode::visit(const AccessNode*)
scalarAccess(op, temporaries) ==
  IF op.tensorVar \in DOMAIN temporaries
    THEN [expr |-> temporaries[op.tensorVar], paths |-> {}, iters |-> {}]
    ELSE [expr |-> loadValue(accessIterator(op)), paths |-> {op},
          iters |-> {accessIterator(op)}]

RECURSIVE lowerToScalarExpression(_, _)
\* lowerToScalarExpression(indexExpr, iterators, iterationGraph, temporaries)
lowerToScalarExpression(e, temporaries) ==
  IF isAccess(e) THEN scalarAccess(e, temporaries)
  ELSE IF isUnary(e)
    THEN LET a == lowerToScalarExpression(e.a, temporaries)
         IN [expr |-> [ir |-> e.kind, a |-> a.expr],
             paths |-> a.paths, iters |-> a.iters]
  ELSE IF isBinary(e)
    THEN LET a == lowerToScalarExpression(e.a, temporaries)
             b == lowerToScalarExpression(e.b, temporaries)
         IN [expr |-> [ir |-> e.kind, a |-> a.expr, b |-> b.expr],
             paths |-> a.paths \cup b.paths, iters |-> a.iters \cup b.iters]
  ELSE [expr |-> [ir |-> "Literal", type |-> e.kind, val |-> e.val],
        paths |-> {}, iters |-> {}]

\* the leaves of the lowered expressions: an access of the order-1 tensor a,
\* an access of the order-0 tensor s, an immediate
LowerLeaves ==
  {Access("a", <<"i">>), Access("s", <<>>), ImmNode(NewNode, "IntImm", 1)}

RECURSIVE LowerTrees(_)
LowerTrees(n) ==
  IF n = 1 THEN LowerLeaves
  ELSE {UnaryNode(NewNode, k, x) : k \in UnaryKinds, x \in LowerTrees(n - 1)}
         \cup UNION {{BinaryNode(NewNode, k, x, y) :
                        k \in BinaryKinds, x \in LowerTrees(m),
                        y \in LowerTrees(n - 1 - m)} : m \in 1..(n - 2)}

LowerPool == {Label(e, 1) : e \in UNION {LowerTrees(n) : n \in 1..MaxNodes}}

\* the value a temporary of tensor t holds
TemporaryValue(t) == [ir |-> "Var", name |-> "t", of |-> t]

\* the temporaries maps: the tensors of any subset of {a, s} are temporaries
TemporariesPool ==
  {[t \in ts |-> TemporaryValue(t)] : ts \in SUBSET {"a", "s"}}

InitLower ==
  /\ fnExpr \in LowerPool
  /\ fnVars \in TemporariesPool
  /\ fnRes = Idle
  /\ content = [t \in ResultVars |-> NewContent(FALSE)]
  /\ operatorSplits = [n \in PoolIds |-> <<>>]
  /\ last = Idle
  /\ EqualsIdle

\* the program calls lowerToScalarExpression(fnExpr, ..., fnVars)
CallLowerToScalarExpression ==
  /\ fnRes = Idle
  /\ fnRes' = [op  |-> "lowerToScalarExpression",
               out |-> lowerToScalarExpression(fnExpr, fnVars)]
  /\ UNCHANGED <<fnExpr, fnVars, tensorVarsState, equalsState>>

NextLower == CallLowerToScalarExpression

SpecLower == InitLower /\ [][NextLower]_vars

RECURSIVE SubTerms(_)
\* the low-level expressions inside a lowered expression
SubTerms(x) ==
  IF x.ir \in UnaryKinds THEN {x} \cup SubTerms(x.a)
  ELSE IF x.ir \in BinaryKinds THEN {x} \cup SubTerms(x.a) \cup SubTerms(x.b)
  ELSE {x}

\* C11: for every access whose tensor is a key of the temporaries map the
\* lowered result is the temporary's value, and neither its tensor path nor
\* an iterator is looked up for it; for every other access the result is a
\* load from the value buffer of the root iterator (order-0 tensor) or of
\* the iterator of the path's last step (order > 0), at that iterator's
\* position pointer.
C11_TemporariesShortCircuit ==
  fnRes.op = "lowerToScalarExpression" =>
    \A n \in AccessesOf(fnExpr) :
      LET r    == lowerToScalarExpression(n, fnVars)
          t    == n.tensorVar
          it   == IF Shape(t) = <<>>
                    THEN [tensor |-> t, level |-> 0]
                    ELSE [tensor |-> t, level |-> Len(n.indexVars)]
          load == [ir |-> "Load",
                   values |-> [ir |-> "GetProperty", tensor |-> t,
                               property |-> "Values"],
                   ptr |-> [ir |-> "Var", name |-> "ptr", of |-> it]]
      IN IF t \in DOMAIN fnVars
           THEN /\ r.expr = fnVars[t]
                /\ r.paths = {} /\ r.iters = {}
                /\ n \notin fnRes.out.paths
                /\ \A i \in fnRes.out.iters : i.tensor # t
                /\ fnVars[t] \in SubTerms(fnRes.out.expr)
           ELSE /\ r.expr = load
                /\ load \in SubTerms(fnRes.out.expr)
                /\ n \in fnRes.out.paths
                /\ it \in fnRes.out.iters

\* C11 witness: a product of an access of the temporary a and an access of
\* the order-0 tensor s, which is no temporary: the temporary's value times
\* a load through the root iterator of s, and only s is looked up.
C11_Witness ==
  /\ fnRes.op = "lowerToScalarExpression"
  /\ fnExpr.kind = "Mul"
  /\ isAccess(fnExpr.a) /\ fnExpr.a.tensorVar = "a"
  /\ isAccess(fnExpr.b) /\ fnExpr.b.tensorVar = "s"
  /\ DOMAIN fnVars = {"a"}
  /\ fnRes.out.expr.a = TemporaryValue("a")
  /\ fnRes.out.expr.b.ir = "Load"
  /\ fnRes.out.paths = {fnExpr.b}
  /\ fnRes.out.iters = {[tensor |-> "s", level |-> 0]}

(***************************************************************************)
(* simplify on an expression none of whose accesses is exhausted.          *)
(***************************************************************************)
\* no access occurring in e is a member of the exhausted set
NoneExhausted(e, exhausted) ==
  \A n \in AccessesOf(e) : \A x \in exhausted : Strip(x) # Strip(n)

\* C12: when the exhausted set contains none of the accesses occurring in e
\* (in particular when it is empty), simplify returns an expression
\* structurally equal to e made of the original nodes: the returned root is
\* the very node of e's root and no new unary or binary node is constructed.
C12_SimplifyReusesNodes ==
  (fnRes.op = "simplify" /\ NoneExhausted(fnExpr, fnVars)) =>
    /\ Strip(fnRes.out) = Strip(fnExpr)
    /\ fnRes.out.id = fnExpr.id
    /\ \A n \in Nodes(fnRes.out) : n.id # NewNode
    /\ Nodes(fnRes.out) = Nodes(fnExpr)

\* C12 witness: a negated product over a(i), simplified under the exhausted
\* set {c(i,j)}, which is not empty and holds no access of the expression:
\* the answer is the expression's own root.
C12_Witness ==
  /\ fnRes.op = "simplify"
  /\ fnVars = {AccessNode(901, "c", <<"i", "j">>)}
  /\ fnExpr.kind = "Neg" /\ fnExpr.a.kind = "Mul"
  /\ isAccess(fnExpr.a.a) /\ fnExpr.a.a.tensorVar = "a"
  /\ NoneExhausted(fnExpr, fnVars)
  /\ fnRes.out = fnExpr

(***************************************************************************)
(* getIndexVars and getIndexVarRanges.  A map<IndexVar,Dimension> is a     *)
(* function from index variables to dimensions.  The tensor handed to the  *)
(* two functions is the record fnVars = [tensor, freeVars] together with   *)
(* its definition fnExpr; neither function validates that the occurrences  *)
(* of an index variable agree on the dimension.                            *)
(***************************************************************************)
RECURSIVE AccessSeq(_)
\* match(indexExpr, function<void(const AccessNode*)>): the accesses of an
\* expression in the order the traversal reaches them
AccessSeq(e) ==
  IF isAccess(e) THEN <<e>>
  ELSE IF isUnary(e) THEN AccessSeq(e.a)
  ELSE IF isBinary(e) THEN AccessSeq(e.a) \o AccessSeq(e.b)
  ELSE <<>>

\* an insertion that replaces the value of a key that is present
mapInsert_overwrite(m, k, v) == (k :> v) @@ m

\* std::map::insert({k, v}): no effect when the key is present
mapInsert(m, k, v) == IF k \in DOMAIN m THEN m ELSE m @@ (k :> v)

RECURSIVE insertDimensions(_, _, _, _)
\* for (i = 0; i < vars.size(); i++) insert({vars[i], shape.getDimension(i)}),
\* from position i on
insertDimensions(m, ivs, shape, i) ==
  IF i > Len(ivs) THEN m
  ELSE insertDimensions(mapInsert(m, ivs[i], shape[i]), ivs, shape, i + 1)

RECURSIVE insertAccesses(_, _)
\* the callback of getIndexVarRanges applied to the accesses in order
insertAccesses(m, accesses) ==
  IF accesses = <<>> THEN m
  ELSE LET op == Head(accesses)
       IN insertAccesses(
            insertDimensions(m, op.indexVars, Shape(op.tensorVar), 1),
            Tail(accesses))

\* getIndexVarRanges(tensor), the tensor having the given free variables and
\* definition
getIndexVarRanges(t, freeVars, indexExpr) ==
  insertAccesses(insertDimensions(<<>>, freeVars, Shape(t), 1),
                 AccessSeq(indexExpr))

\* getIndexVars(tensor)
getIndexVars(freeVars, indexExpr) ==
  Range(freeVars)
    \cup UNION {Range(AccessSeq(indexExpr)[m].indexVars) :
                  m \in 1..Len(AccessSeq(indexExpr))}

\* the accesses of the definitions given to the two functions; b(i) and
\* c(j,i) give i and j other dimensions than a(i) and c(i,j) do
RangeLeaves ==
  {Access("a", <<"i">>), Access("b", <<"i">>), Access("b", <<"j">>),
   Access("c", <<"i", "j">>), Access("c", <<"j", "i">>),
   ImmNode(NewNode, "IntImm", 1)}

RangePool ==
  {Label(e, 1) :
     e \in RangeLeaves
             \cup {Neg(x) : x \in RangeLeaves}
             \cup {Add(x, y) : x, y \in RangeLeaves}
             \cup {Mul(x, y) : x, y \in RangeLeaves}}

\* the tensors handed to the two functions: y of shape <<3>> and c of shape
\* <<3, 4>>, with any free variables of the tensor's order
InitRanges ==
  /\ fnExpr \in RangePool
  /\ fnVars \in {[tensor |-> t, freeVars |-> fv] :
                   t \in {"y"}, fv \in [1..1 -> {"i", "j"}]}
                  \cup {[tensor |-> t, freeVars |-> fv] :
                          t \in {"c"}, fv \in [1..2 -> {"i", "j"}]}
  /\ fnRes = Idle
  /\ content = [t \in ResultVars |-> NewContent(FALSE)]
  /\ operatorSplits = [n \in PoolIds |-> <<>>]
  /\ last = Idle
  /\ EqualsIdle

\* the program calls getIndexVarRanges on the tensor
CallGetIndexVarRanges ==
  /\ fnRes = Idle
  /\ fnRes' = [op  |-> "getIndexVarRanges",
               out |-> getIndexVarRanges(fnVars.tensor, fnVars.freeVars,
                                         fnExpr)]
  /\ UNCHANGED <<fnExpr, fnVars, tensorVarsState, equalsState>>

\* the program calls getIndexVars on the tensor
CallGetIndexVars ==
  /\ fnRes = Idle
  /\ fnRes' = [op  |-> "getIndexVars",
               out |-> getIndexVars(fnVars.freeVars, fnExpr)]
  /\ UNCHANGED <<fnExpr, fnVars, tensorVarsState, equalsState>>

NextRanges == CallGetIndexVarRanges \/ CallGetIndexVars

SpecRanges == InitRanges /\ [][NextRanges]_vars

RECURSIVE AccessBindings(_)
\* the <<index variable, dimension>> pairs of a sequence of accesses, in
\* the order of the accesses and of the positions within each access
AccessBindings(accesses) ==
  IF accesses = <<>> THEN <<>>
  ELSE [m \in 1..Len(Head(accesses).indexVars) |->
          <<Head(accesses).indexVars[m],
            Shape(Head(accesses).tensorVar)[m]>>]
         \o AccessBindings(Tail(accesses))

\* every position of an index variable with the dimension of that position:
\* the free variables against the shape of the tensor, then the accesses
Bindings ==
  [m \in 1..Len(fnVars.freeVars) |->
     <<fnVars.freeVars[m], Shape(fnVars.tensor)[m]>>]
    \o AccessBindings(AccessSeq(fnExpr))

\* the first position at which the index variable v is encountered
FirstBinding(v) ==
  CHOOSE m \in 1..Len(Bindings) :
    Bindings[m][1] = v /\ \A k \in 1..(m - 1) : Bindings[k][1] # v

\* C13: getIndexVarRanges records for each index variable the dimension of
\* the first position at which it is encountered, the free variables first
\* and then the accesses in traversal order; a later occurrence with another
\* dimension does not overwrite it, so a free variable maps to the dimension
\* of the tensor at its first free-variable position, and the keys of the
\* map are the set getIndexVars returns.
C13_FirstBindingWins ==
  /\ fnRes.op = "getIndexVarRanges" =>
       /\ DOMAIN fnRes.out = {Bindings[m][1] : m \in 1..Len(Bindings)}
       /\ \A v \in DOMAIN fnRes.out :
            fnRes.out[v] = Bindings[FirstBinding(v)][2]
       /\ \A m \in 1..Len(fnVars.freeVars) :
            (\A k \in 1..(m - 1) : fnVars.freeVars[k] # fnVars.freeVars[m])
              => fnRes.out[fnVars.freeVars[m]] = Shape(fnVars.tensor)[m]
       /\ DOMAIN fnRes.out = getIndexVars(fnVars.freeVars, fnExpr)
  /\ fnRes.op = "getIndexVars" =>
       fnRes.out = {Bindings[m][1] : m \in 1..Len(Bindings)}

\* C13 witness: y(i) = a(i) + c(j,i): i is met as the free variable with
\* dimension 3 and later in c(j,i) with dimension 4; the map keeps 3 for i
\* and has the keys i and j.
C13_Witness ==
  /\ fnRes.op = "getIndexVarRanges"
  /\ fnVars = [tensor |-> "y", freeVars |-> <<"i">>]
  /\ fnExpr.kind = "Add"
  /\ Strip(fnExpr.a) = Access("a", <<"i">>)
  /\ Strip(fnExpr.b) = Access("c", <<"j", "i">>)
  /\ fnRes.out = [v \in {"i", "j"} |-> 3]

(***************************************************************************)
(* The stack of active expressions during getAvailableExpressions.         *)
(***************************************************************************)
RECURSIVE Visits(_, _, _)
\* the visits of a traversal of e that starts in the state st: the node
\* visited, the state before the visit and the state after it
Visits(e, visitedVars, st) ==
  {[node |-> e, before |-> st, after |-> extractVisit(e, visitedVars, st)]}
    \cup (IF isUnary(e) THEN Visits(e.a, visitedVars, st)
          ELSE IF isBinary(e)
            THEN Visits(e.a, visitedVars, st)
                   \cup Visits(e.b, visitedVars,
                               extractVisit(e.a, visitedVars, st))
          ELSE {})

\* C14: during getAvailableExpressions the visit of any node leaves the
\* stack of active expressions exactly one entry larger than it was before
\* the visit, the entries below untouched, so no internal assertion fails:
\* at least 1 entry after the operand of a unary node, at least 2 after both
\* operands of a binary node, exactly 1 when the traversal has finished.
C14_StackDiscipline ==
  fnRes.op = "getAvailableExpressions" =>
    /\ fnRes.iasserts
    /\ \A v \in Visits(fnExpr, fnVars, NewExtract) :
         LET before == v.before.activeExpressions
             after  == v.after.activeExpressions
         IN /\ Len(after) = Len(before) + 1
            /\ SubSeq(after, 1, Len(before)) = before
            /\ after[Len(after)].first = v.node
            /\ isUnary(v.node) =>
                 Len(extractVisit(v.node.a, fnVars, v.before)
                       .activeExpressions) = Len(before) + 1
            /\ isBinary(v.node) =>
                 Len(extractVisit(v.node.b, fnVars,
                       extractVisit(v.node.a, fnVars, v.before))
                       .activeExpressions) = Len(before) + 2
    /\ Len(extractVisit(fnExpr, fnVars, NewExtract).activeExpressions) = 1

\* C14 witness: a binary node whose right operand is a binary node: the
\* right operand of the inner node is visited with two entries on the stack
\* and leaves three, and the call ends with no assertion failed.
C14_Witness ==
  /\ fnRes.op = "getAvailableExpressions"
  /\ fnRes.iasserts
  /\ isBinary(fnExpr) /\ isBinary(fnExpr.b)
  /\ \E v \in Visits(fnExpr, fnVars, NewExtract) :
       /\ v.node = fnExpr.b.b
       /\ Len(v.before.activeExpressions) = 2
       /\ Len(v.after.activeExpressions) = 3

====
